---- MODULE Spec2Model ----
(***************************************************************************)
(* The sync relay of packages/evolu-server (frameworks/Express.ts) and the *)
(* SecretBox of packages/evolu-common (Crypto.ts).                         *)
(*                                                                         *)
(* The relay is a single Node.js process: every handler runs to completion *)
(* and handlers interleave only at the await of the external sync          *)
(* operation.  Each action below is one such run-to-completion step.       *)
(* Everything the process writes (HTTP responses, WebSocket frames,        *)
(* console.error lines) is appended to one output log, in program order.   *)
(***************************************************************************)
EXTENDS Integers, Sequences, FiniteSets, TLC

\* ---------------------------------------------------------------- bounds
\* Sockets that connect in a run.
NumSockets == 2
\* Sync operations dispatched in a run, HTTP requests and WebSocket
\* messages together.
MaxSyncs == 2

Sockets == 1..NumSockets
Requests == 1..MaxSyncs

\* ------------------------------------------------- outcomes of server.sync
\* Success payloads are opaque byte buffers.
Payloads == {"R1", "R2"}
\* The structured error value carried by BadRequestError.
Errors == {[_tag |-> "SyntaxError"], [_tag |-> "UnexpectedError"]}
NoError == [_tag |-> "none"]
\* Values a defect (Cause.Die) can carry.
Defects == {"SqliteError: disk I/O error"}

FailCause(e) == [_tag |-> "Fail", error |-> [_tag |-> "BadRequestError", error |-> e], defect |-> ""]
DieCause(d) == [_tag |-> "Die", error |-> [_tag |-> "none", error |-> NoError], defect |-> d]
InterruptCause == [_tag |-> "Interrupt", error |-> [_tag |-> "none", error |-> NoError], defect |-> ""]
NoCause == [_tag |-> "Empty", error |-> [_tag |-> "none", error |-> NoError], defect |-> ""]

Causes == {FailCause(e) : e \in Errors} \cup {DieCause(d) : d \in Defects} \cup {InterruptCause}

ExitSuccess(v) == [_tag |-> "Success", value |-> v, cause |-> NoCause]
ExitFailure(c) == [_tag |-> "Failure", value |-> "", cause |-> c]
NoExit == [_tag |-> "none", value |-> "", cause |-> NoCause]

Exits == {ExitSuccess(v) : v \in Payloads} \cup {ExitFailure(c) : c \in Causes}

\* JSON.stringify of the values the relay serializes.
JsonStringify(e) == "{\"_tag\":\"" \o e._tag \o "\"}"
ErrorNotification == "{\"error\":\"Failed to process sync request\"}"

\* ------------------------------------------------------ Crypto.ts: SecretBox
\* Bytes are the integers 0..255.
MaxLen == 2
SampleBytes == {0, 1, 255}
RECURSIVE BytesOfLen(_)
BytesOfLen(n) ==
  IF n = 0 THEN {<<>>}
  ELSE {Append(b, x) : b \in BytesOfLen(n - 1), x \in SampleBytes}
Plaintexts == UNION {BytesOfLen(n) : n \in 0..MaxLen}
Keys == {[i \in 1..32 |-> 1], [i \in 1..32 |-> (7 * i) % 256]}
\* The values randomBytes(24) returns in this model.
randomBytes24 == {[i \in 1..24 |-> 0], [i \in 1..24 |-> (11 * i) % 256]}

RECURSIVE Xor(_, _)
Xor(a, b) ==
  IF a = 0 THEN b
  ELSE IF b = 0 THEN a
  ELSE 2 * Xor(a \div 2, b \div 2) + ((a + b) % 2)

RECURSIVE Sum(_)
Sum(bytes) == IF bytes = <<>> THEN 0 ELSE Head(bytes) + Sum(Tail(bytes))

\* secretbox of @noble/ciphers (xsalsa20poly1305), reduced to its shape: a
\* stream cipher keyed by (key, nonce) XORed over the data, and a 16-byte
\* tag over the ciphertext, placed before it.
Keystream(key, nonce, i) == (Sum(key) + 3 * Sum(nonce) + 7 * i) % 256
XorStream(key, nonce, data) ==
  [i \in 1..Len(data) |-> Xor(data[i], Keystream(key, nonce, i))]
Tag(key, nonce, data) ==
  [j \in 1..16 |-> (5 * Sum(key) + Sum(nonce) + j * (1 + Len(data)) + (j + 2) * Sum(data)) % 256]

Thrown == [ok |-> FALSE, bytes |-> <<>>]
Returned(bytes) == [ok |-> TRUE, bytes |-> bytes]

secretboxSeal(key, nonce, plaintext) ==
  LET c == XorStream(key, nonce, plaintext) IN Tag(key, nonce, c) \o c

secretboxOpen(key, nonce, boxed) ==
  IF Len(key) # 32 \/ Len(nonce) # 24 \/ Len(boxed) < 16 THEN Thrown
  ELSE LET tag == SubSeq(boxed, 1, 16)
           c == SubSeq(boxed, 17, Len(boxed))
       IN IF tag # Tag(key, nonce, c) THEN Thrown
          ELSE Returned(XorStream(key, nonce, c))

\* Uint8Array.subarray(begin, end), both clamped to the length.
subarray(bytes, begin, end) ==
  SubSeq(bytes, (IF begin < Len(bytes) THEN begin ELSE Len(bytes)) + 1,
                IF end < Len(bytes) THEN end ELSE Len(bytes))

concatBytes(a, b) == a \o b

\* SecretBoxLive.seal, nonce being the value randomBytes(24) returned.
seal(key, plaintext, nonce) ==
  LET ciphertext == secretboxSeal(key, nonce, plaintext) IN
  concatBytes(nonce, ciphertext)

\* Mutant: the throw of secretbox.open is caught and the bytes after the
\* nonce are returned as they are.
open_CatchesThrow(key, ciphertext) ==
  LET nonce == subarray(ciphertext, 0, 24)
      ciphertextWithoutNonce == subarray(ciphertext, 24, Len(ciphertext))
      r == secretboxOpen(key, nonce, ciphertextWithoutNonce)
  IN IF r.ok THEN r ELSE Returned(ciphertextWithoutNonce)

\* Mutant: the input is split at the tag length instead of the nonce length.
open_SplitAt16(key, ciphertext) ==
  LET nonce == subarray(ciphertext, 0, 16)
      ciphertextWithoutNonce == subarray(ciphertext, 16, Len(ciphertext))
  IN secretboxOpen(key, nonce, ciphertextWithoutNonce)

\* SecretBoxLive.open.
open(key, ciphertext) ==
  LET nonce == subarray(ciphertext, 0, 24)
      ciphertextWithoutNonce == subarray(ciphertext, 24, Len(ciphertext))
  IN secretboxOpen(key, nonce, ciphertextWithoutNonce)

NoBox == [pc |-> "off", key |-> <<>>, plaintext |-> <<>>, sealed |-> <<>>,
          input |-> <<>>, openKey |-> <<>>, opened |-> Thrown]

\* A sealed message with bit b of byte i flipped, and its first n bytes.
RECURSIVE Pow2(_)
Pow2(b) == IF b = 0 THEN 1 ELSE 2 * Pow2(b - 1)
FlipBit(bytes, i, b) == [bytes EXCEPT ![i] = Xor(@, Pow2(b))]
Truncate(bytes, n) == SubSeq(bytes, 1, n)

\* --------------------------------------------------- Crypto.ts: slip21Derive
\* Strings are sequences of code points below 65536.
MaxPath == 2
Segments == {<<97>>, <<98>>, <<97, 98>>, <<233>>}
RECURSIVE PathsOfLen(_)
PathsOfLen(n) ==
  IF n = 0 THEN {<<>>}
  ELSE {Append(q, p) : q \in PathsOfLen(n - 1), p \in Segments}
Paths == UNION {PathsOfLen(n) : n \in 0..MaxPath}
Seeds == {[i \in 1..64 |-> 0], [i \in 1..64 |-> i], <<1, 2, 3>>}

\* The ASCII bytes of "Symmetric key seed".
SymmetricKeySeed ==
  <<83, 121, 109, 109, 101, 116, 114, 105, 99, 32, 107, 101, 121, 32, 115, 101, 101, 100>>

\* new TextEncoder().encode(str): UTF-8.
Utf8(cp) ==
  IF cp < 128 THEN <<cp>>
  ELSE IF cp < 2048 THEN <<192 + (cp \div 64), 128 + (cp % 64)>>
  ELSE <<224 + (cp \div 4096), 128 + ((cp \div 64) % 64), 128 + (cp % 64)>>
RECURSIVE TextEncode(_)
TextEncode(str) ==
  IF str = <<>> THEN <<>> ELSE Utf8(Head(str)) \o TextEncode(Tail(str))

\* hmac(sha512, key, message) of @noble/hashes, reduced to its shape: 64
\* bytes that depend on every byte of the key and of the message and on
\* their positions.
RECURSIVE WeightedSum(_, _, _)
WeightedSum(bytes, i, w) ==
  IF i > Len(bytes) THEN 0
  ELSE ((w + 2 * i) * (1 + bytes[i]) + WeightedSum(bytes, i + 1, w)) % 256
hmacSha512(key, message) ==
  [j \in 1..64 |->
     (WeightedSum(key, 1, 3 * j) + WeightedSum(message, 1, 5 * j + 1)
        + 7 * Len(key) + 11 * Len(message) + 13 * j) % 256]

\* Uint8Array.slice(begin, end).
slice(bytes, begin, end) == subarray(bytes, begin, end)

\* The for loop of slip21Derive, from index i on, m being its state.
RECURSIVE slip21Loop(_, _, _)
slip21Loop(m, path, i) ==
  IF ~(i < Len(path)) THEN m
  ELSE LET p == TextEncode(path[i + 1])
           e == <<0>> \o p
       IN slip21Loop(hmacSha512(slice(m, 0, 32), e), path, i + 1)

\* Mutant: the lower half of the last state is returned.
slip21Derive_LowerHalf(seed, path) ==
  slice(slip21Loop(hmacSha512(SymmetricKeySeed, seed), path, 0), 0, 32)

slip21Derive(seed, path) ==
  slice(slip21Loop(hmacSha512(SymmetricKeySeed, seed), path, 0), 32, 64)

NoDerivation == [pc |-> "off", seed |-> <<>>, path |-> <<>>, key |-> <<>>]

\* ------------------------------------------------ Crypto.ts: nanoidAsNodeId
\* Characters are strings of length one, strings are sequences of them.
HexAlphabet ==
  <<"0", "1", "2", "3", "4", "5", "6", "7", "8", "9", "a", "b", "c", "d", "e", "f">>
\* \w of the NodeId pattern.
WordChars ==
  {"0", "1", "2", "3", "4", "5", "6", "7", "8", "9", "_",
   "a", "b", "c", "d", "e", "f", "g", "h", "i", "j", "k", "l", "m",
   "n", "o", "p", "q", "r", "s", "t", "u", "v", "w", "x", "y", "z",
   "A", "B", "C", "D", "E", "F", "G", "H", "I", "J", "K", "L", "M",
   "N", "O", "P", "Q", "R", "S", "T", "U", "V", "W", "X", "Y", "Z"}

\* The random source: byte k (from 0) of the stream with stride a and offset b.
RandomByte(a, b, k) == (a * k + b) % 256
RandomStreams == (0..7) \X {17 * k : k \in 0..15}

\* customAlphabet of nanoid: the mask is the smallest 2^k - 1 that covers the
\* alphabet, random bytes are drawn step at a time and read from the last to
\* the first, and a byte whose masked value is outside the alphabet is
\* skipped.
RECURSIVE MaskFor(_, _)
MaskFor(n, m) == IF m >= n - 1 /\ m >= 1 THEN m ELSE MaskFor(n, 2 * m + 1)
StepFor(mask, size, n) == ((16 * mask * size) \div (10 * n)) + 1

RECURSIVE customAlphabetFill(_, _, _, _, _, _)
customAlphabetFill(alphabet, size, stream, id, round, j) ==
  LET mask == MaskFor(Len(alphabet), 0)
      step == StepFor(mask, size, Len(alphabet))
  IN IF j = 0 THEN customAlphabetFill(alphabet, size, stream, id, round + 1, step)
     ELSE LET byte == RandomByte(stream[1], stream[2], round * step + (j - 1))
              index == byte % (mask + 1)
              next == IF index < Len(alphabet) THEN Append(id, alphabet[index + 1]) ELSE id
          IN IF Len(next) = size THEN next
             ELSE customAlphabetFill(alphabet, size, stream, next, round, j - 1)

customAlphabet(alphabet, size, stream) ==
  customAlphabetFill(alphabet, size, stream, <<>>, 0,
                     StepFor(MaskFor(Len(alphabet), 0), size, Len(alphabet)))

\* Mutant: the default length of nanoid is used.
nanoidForNodeId_Size21(stream) == customAlphabet(HexAlphabet, 21, stream)

nanoidForNodeId(stream) == customAlphabet(HexAlphabet, 16, stream)

\* Schema.pattern(/^[\w-]{16}$/).
NodeIdPattern(str) ==
  /\ Len(str) = 16
  /\ \A i \in DOMAIN str : str[i] \in WordChars \cup {"-"}

NoNodeId == [pc |-> "off", stream |-> <<0, 0>>, id |-> <<>>]

\* ------------------------------------------------------------------ state
VARIABLES
  clients,      \* the module-level array of accepted sockets
  readyState,   \* readyState of every socket
  requests,     \* the HTTP requests: position and the exit of their sync
  messages,     \* per socket, the messages received, in receipt order
  sent,         \* per socket, the frames put on its wire, in wire order
  sendAfterCloseThrows,  \* whether this build's ws.send throws on a socket that is not open
  box,          \* one use of SecretBox: the key, the plaintext, the sealed message, the result of open
  derivation,   \* one use of slip21Derive: the seed, the path, the derived key
  nodeId,       \* one use of nanoidAsNodeId: the random stream, the id
  startup       \* how far createExpressAppWithWebsocket has come

vars == <<clients, readyState, requests, messages, sent, sendAfterCloseThrows, box,
          derivation, nodeId, startup>>

\* Before createExpressAppWithWebsocket is called.
NotStarted ==
  [phase |-> "start", initDatabase |-> "none", calls |-> 0, route |-> FALSE, wsHandler |-> FALSE]

\* ---------------------------------------------------------------- output
HttpCause(r) == <<"http", r, 0>>
WsCause(s, n) == <<"ws", s, n>>

Response(r, status, ctype, body) ==
  [kind |-> "response", to |-> 0, status |-> status, ctype |-> ctype,
   data |-> body, cause |-> HttpCause(r), open |-> TRUE]

Frame(s, data, cause, wasOpen) ==
  [kind |-> "frame", to |-> s, status |-> 0, ctype |-> "",
   data |-> data, cause |-> cause, open |-> wasOpen]

ConsoleError(text, cause) ==
  [kind |-> "console", to |-> 0, status |-> 0, ctype |-> "",
   data |-> text, cause |-> cause, open |-> TRUE]

\* --------------------------------------------------------------- ws.send
\* client.send(data): the frame goes out when the socket is open.  On a
\* socket that is not open nothing goes out, and the call either returns
\* or throws, depending on the ws build.
send(s, data, cause) ==
  [events |-> <<Frame(s, data, cause, readyState[s] = "OPEN")>>,
   threw |-> readyState[s] # "OPEN" /\ sendAfterCloseThrows]

\* -------------------------------------------------------------- broadcast
\* Mutant: the readyState check is missing.
isOpen_Always(client) == TRUE

isOpen(client) == readyState[client] = "OPEN"

RECURSIVE broadcastFrom(_, _, _)
broadcastFrom(i, data, cause) ==
  IF i > Len(clients) THEN [events |-> <<>>, threw |-> FALSE]
  ELSE IF isOpen(clients[i])
       THEN LET r == send(clients[i], data, cause) IN
            IF r.threw THEN r
            ELSE LET rest == broadcastFrom(i + 1, data, cause) IN
                 [events |-> r.events \o rest.events, threw |-> rest.threw]
       ELSE broadcastFrom(i + 1, data, cause)

\* Mutant: the iteration ends at the first client that is not open.
RECURSIVE broadcast_StopAtClosedFrom(_, _, _)
broadcast_StopAtClosedFrom(i, data, cause) ==
  IF i > Len(clients) THEN [events |-> <<>>, threw |-> FALSE]
  ELSE IF ~isOpen(clients[i]) THEN [events |-> <<>>, threw |-> FALSE]
  ELSE LET r == send(clients[i], data, cause)
           rest == broadcast_StopAtClosedFrom(i + 1, data, cause)
       IN [events |-> r.events \o rest.events, threw |-> rest.threw]
broadcast_StopAtClosed(data, cause) == broadcast_StopAtClosedFrom(1, data, cause)

broadcast(data, cause) == broadcastFrom(1, data, cause)

\* ------------------------------------------------- HTTP: the onExit match
\* Cause.failureOrCause: Left(error) when the cause holds a failure,
\* Right(cause) otherwise.
failureOrCause(cause) ==
  IF cause._tag = "Fail" THEN [_tag |-> "Left", left |-> cause.error, right |-> NoCause]
  ELSE [_tag |-> "Right", left |-> [_tag |-> "none", error |-> NoError], right |-> cause]

\* Mutant: the tagged error is serialized instead of its error field.
onLeft_WholeError(r, error) ==
  <<Response(r, 400, "", JsonStringify(error))>>

onLeft(r, error) ==
  <<Response(r, 400, "", JsonStringify(error.error))>>

\* Mutant: the defect is echoed in the body.
onRight_LeaksCause(r, cause) ==
  <<ConsoleError(cause._tag \o " " \o cause.defect, HttpCause(r)),
    Response(r, 500, "", "Internal Server Error: " \o cause._tag)>>

onRight(r, cause) ==
  <<ConsoleError(cause._tag \o " " \o cause.defect, HttpCause(r)),
    Response(r, 500, "", "Internal Server Error")>>

\* Mutant: the 500 reply is written after the 400 reply too.
onFailure_FallsThrough(r, cause) ==
  LET e == failureOrCause(cause) IN
  (IF e._tag = "Left" THEN onLeft(r, e.left) ELSE <<>>) \o onRight(r, cause)

onFailure(r, cause) ==
  LET e == failureOrCause(cause) IN
  IF e._tag = "Left" THEN onLeft(r, e.left) ELSE onRight(r, e.right)

\* Mutant: the payload is broadcast before the response is written.
onSuccess_BroadcastFirst(r, buffer) ==
  LET b == broadcast(buffer, HttpCause(r)) IN
  b.events
    \o (IF b.threw THEN <<ConsoleError("broadcast error", HttpCause(r))>> ELSE <<>>)
    \o <<Response(r, 200, "application/x-protobuf", buffer)>>

onSuccess(r, buffer) ==
  LET b == broadcast(buffer, HttpCause(r)) IN
  <<Response(r, 200, "application/x-protobuf", buffer)>> \o b.events
    \o (IF b.threw THEN <<ConsoleError("broadcast error", HttpCause(r))>> ELSE <<>>)

onExit(r, exit) ==
  IF exit._tag = "Success" THEN onSuccess(r, exit.value) ELSE onFailure(r, exit.cause)

\* ------------------------------------------- WebSocket: the message handler
\* The shapes of WebSocket.RawData: one Buffer, an ArrayBuffer, or an array
\* of Buffer fragments.
RawMessages ==
  { [type |-> "Buffer", bytes |-> <<1, 2>>, fragments |-> <<>>],
    [type |-> "ArrayBuffer", bytes |-> <<1, 2>>, fragments |-> <<>>],
    [type |-> "Array", bytes |-> <<>>, fragments |-> <<<<1>>, <<2>>>>] }

RECURSIVE BufferConcat(_)
BufferConcat(list) ==
  IF list = <<>> THEN <<>> ELSE Head(list) \o BufferConcat(Tail(list))

\* Convert message to Uint8Array if it is not already.
toUint8Array(message) ==
  IF message.type = "Buffer" THEN message.bytes
  ELSE IF message.type = "ArrayBuffer" THEN message.bytes
  ELSE IF message.type = "Array" THEN BufferConcat(message.fragments)
  ELSE message.bytes

\* What follows the await of the sync of message n of socket s: the reply
\* inside the try block, and the catch block when the await or the reply
\* threw.
catchBlock(s, n) ==
  LET c == send(s, ErrorNotification, WsCause(s, n)) IN
  [events |-> <<ConsoleError("Error handling sync request:", WsCause(s, n))>> \o c.events,
   pc |-> IF c.threw THEN "rejected" ELSE "notified"]

\* Mutant: the reply is broadcast, as on the HTTP path.
tryBlock_Broadcast(s, n, exit) ==
  IF exit._tag = "Success"
  THEN broadcast(exit.value, WsCause(s, n))
  ELSE [events |-> <<>>, threw |-> TRUE]

tryBlock(s, n, exit) ==
  IF exit._tag = "Success"
  THEN send(s, exit.value, WsCause(s, n))
  ELSE [events |-> <<>>, threw |-> TRUE]

\* Mutant: the catch block runs as a finally block, after a reply too.
onMessage_CatchAlways(s, n, exit) ==
  LET t == tryBlock(s, n, exit)
      c == catchBlock(s, n) IN
  [events |-> t.events \o c.events, pc |-> c.pc]

onMessage(s, n, exit) ==
  LET t == tryBlock(s, n, exit) IN
  IF t.threw
  THEN LET c == catchBlock(s, n) IN [events |-> t.events \o c.events, pc |-> c.pc]
  ELSE [events |-> t.events, pc |-> "replied"]

RECURSIVE SumLen(_)
SumLen(S) ==
  IF S = {} THEN 0
  ELSE LET s == CHOOSE x \in S : TRUE IN Len(messages[s]) + SumLen(S \ {s})

\* The number of sync operations dispatched so far.
Dispatched == Cardinality({r \in Requests : requests[r].pc # "idle"}) + SumLen(Sockets)

\* --------------------------------------------------------------- actions
Init ==
  /\ clients = <<>>
  /\ readyState = [s \in Sockets |-> "CONNECTING"]
  /\ requests = [r \in Requests |-> [pc |-> "idle", exit |-> NoExit, out |-> <<>>]]
  /\ messages = [s \in Sockets |-> <<>>]
  /\ sent = [s \in Sockets |-> <<>>]
  /\ sendAfterCloseThrows \in BOOLEAN
  /\ startup = NotStarted
  /\ box = NoBox
  /\ derivation = NoDerivation
  /\ nodeId = NoNodeId

\* The frames among events that went out on the wire of socket s.
OnWire(events, s) ==
  SelectSeq(events, LAMBDA e : e.kind = "frame" /\ e.to = s /\ e.open)

\* Requests and sockets are numbered in order of arrival.
IsNextRequest(r) == IF r = 1 THEN TRUE ELSE requests[r - 1].pc # "idle"
IsNextSocket(s) == IF s = 1 THEN TRUE ELSE readyState[s - 1] # "CONNECTING"

\* CreateApp with initDatabase started but not waited for: the generator
\* goes straight on to make the app and register the route.
CreateApp_NoYield ==
  /\ startup.phase = "start"
  /\ startup' = [startup EXCEPT !.phase = "app", !.initDatabase = "running",
                                !.calls = @ + 1, !.route = TRUE]
  /\ UNCHANGED <<clients, readyState, requests, messages, sent, sendAfterCloseThrows,
                 box, derivation, nodeId>>

\* createExpressAppGenerator up to the yield of server.initDatabase: the
\* Server is built and initDatabase is started.
CreateApp ==
  /\ startup.phase = "start"
  /\ startup' = [startup EXCEPT !.phase = "initDatabase", !.initDatabase = "running",
                                !.calls = @ + 1]
  /\ UNCHANGED <<clients, readyState, requests, messages, sent, sendAfterCloseThrows,
                 box, derivation, nodeId>>

\* initDatabase ends. When it succeeded the generator goes on: the express
\* app is made and the POST route is registered. When it failed
\* Effect.runPromise rejects, and createExpressAppWithWebsocket logs and
\* rethrows.
InitDatabaseExit ==
  /\ startup.phase = "initDatabase"
  /\ startup.initDatabase = "running"
  /\ \E ok \in BOOLEAN :
       startup' = IF ok
                  THEN [startup EXCEPT !.phase = "app", !.initDatabase = "done", !.route = TRUE]
                  ELSE [startup EXCEPT !.phase = "failed", !.initDatabase = "failed"]
  /\ UNCHANGED <<clients, readyState, requests, messages, sent, sendAfterCloseThrows,
                 box, derivation, nodeId>>

\* createExpressAppWithWebsocket after the await: the HTTP server and the
\* WebSocket server are made, the connection handler is registered, and
\* the server listens.
StartServer ==
  /\ startup.phase = "app"
  /\ startup' = [startup EXCEPT !.phase = "listening", !.wsHandler = TRUE]
  /\ UNCHANGED <<clients, readyState, requests, messages, sent, sendAfterCloseThrows,
                 box, derivation, nodeId>>

\* app.post("/"): the sync effect is started.
HttpPost(r) ==
  /\ startup.phase = "listening"
  /\ startup.route
  /\ requests[r].pc = "idle"
  /\ IsNextRequest(r)
  /\ Dispatched < MaxSyncs
  /\ requests' = [requests EXCEPT ![r].pc = "syncing"]
  /\ UNCHANGED <<clients, readyState, messages, sent, sendAfterCloseThrows, box, derivation, nodeId, startup>>

\* Mutant: one response object is shared, and the exit of one request
\* answers every request in flight.
HttpExit_SharedRes(r) ==
  /\ requests[r].pc = "syncing"
  /\ \E exit \in Exits :
       /\ requests' = [o \in Requests |->
                         IF requests[o].pc = "syncing"
                         THEN [pc |-> "done", exit |-> exit, out |-> onExit(o, exit)]
                         ELSE requests[o]]
       /\ sent' = [s \in Sockets |-> sent[s] \o OnWire(onExit(r, exit), s)]
  /\ UNCHANGED <<clients, readyState, messages, sendAfterCloseThrows, box, derivation, nodeId, startup>>

\* The sync effect of request r ends and its onExit callback runs.
HttpExit(r) ==
  /\ requests[r].pc = "syncing"
  /\ \E exit \in Exits :
       LET out == onExit(r, exit) IN
       /\ requests' = [requests EXCEPT ![r] = [pc |-> "done", exit |-> exit, out |-> out]]
       /\ sent' = [s \in Sockets |-> sent[s] \o OnWire(out, s)]
  /\ UNCHANGED <<clients, readyState, messages, sendAfterCloseThrows, box, derivation, nodeId, startup>>

\* Mutant: the registration runs twice for one connection.
Connection_PushTwice(s) ==
  /\ startup.phase = "listening"
  /\ startup.wsHandler
  /\ readyState[s] = "CONNECTING"
  /\ IsNextSocket(s)
  /\ clients' = Append(Append(clients, s), s)
  /\ readyState' = [readyState EXCEPT ![s] = "OPEN"]
  /\ UNCHANGED <<requests, messages, sent, sendAfterCloseThrows, box, derivation, nodeId, startup>>

\* wss.on("connection"): add the new client to the list.
Connection(s) ==
  /\ startup.phase = "listening"
  /\ startup.wsHandler
  /\ readyState[s] = "CONNECTING"
  /\ IsNextSocket(s)
  /\ clients' = Append(clients, s)
  /\ readyState' = [readyState EXCEPT ![s] = "OPEN"]
  /\ UNCHANGED <<requests, messages, sent, sendAfterCloseThrows, box, derivation, nodeId, startup>>

\* Mutant: a closed socket is taken out of the registry.
Close_Unregisters(s) ==
  /\ readyState[s] = "OPEN"
  /\ readyState' = [readyState EXCEPT ![s] = "CLOSED"]
  /\ clients' = SelectSeq(clients, LAMBDA c : c # s)
  /\ UNCHANGED <<requests, messages, sent, sendAfterCloseThrows, box, derivation, nodeId, startup>>

\* The peer or the network closes socket s (the relay never does).
Close(s) ==
  /\ readyState[s] = "OPEN"
  /\ readyState' = [readyState EXCEPT ![s] = "CLOSED"]
  /\ UNCHANGED <<clients, requests, messages, sent, sendAfterCloseThrows, box, derivation, nodeId, startup>>

\* ws.on("message"), up to the await: normalize the frame, start the sync.
Message(s) ==
  /\ readyState[s] = "OPEN"
  /\ Dispatched < MaxSyncs
  /\ \E message \in RawMessages :
       messages' = [messages EXCEPT ![s] =
                      Append(@, [pc |-> "syncing", arg |-> toUint8Array(message),
                                 exit |-> NoExit, out |-> <<>>])]
  /\ UNCHANGED <<clients, readyState, requests, sent, sendAfterCloseThrows, box, derivation, nodeId, startup>>

\* The sync of message n of socket s ends and the handler resumes.
MessageExit(s, n) ==
  /\ n \in DOMAIN messages[s]
  /\ messages[s][n].pc = "syncing"
  /\ \E exit \in Exits :
       LET h == onMessage(s, n, exit) IN
       /\ messages' = [messages EXCEPT ![s][n].pc = h.pc, ![s][n].exit = exit,
                                       ![s][n].out = h.events]
       /\ sent' = [t \in Sockets |-> sent[t] \o OnWire(h.events, t)]
  /\ UNCHANGED <<clients, readyState, requests, sendAfterCloseThrows, box, derivation, nodeId, startup>>

Next ==
  \/ CreateApp
  \/ InitDatabaseExit
  \/ StartServer
  \/ \E r \in Requests : HttpPost(r)
  \/ \E r \in Requests : HttpExit(r)
  \/ \E s \in Sockets : Connection(s)
  \/ \E s \in Sockets : Close(s)
  \/ \E s \in Sockets : Message(s)
  \/ \E s \in Sockets, n \in 1..MaxSyncs : MessageExit(s, n)

Spec == Init /\ [][Next]_vars
\* ------------------------------------------------- SecretBox: one use of it
relayVars == <<clients, readyState, requests, messages, sent, sendAfterCloseThrows, startup>>

CryptoInit ==
  /\ clients = <<>>
  /\ readyState = [s \in Sockets |-> "CONNECTING"]
  /\ requests = [r \in Requests |-> [pc |-> "idle", exit |-> NoExit, out |-> <<>>]]
  /\ messages = [s \in Sockets |-> <<>>]
  /\ sent = [s \in Sockets |-> <<>>]
  /\ sendAfterCloseThrows = FALSE
  /\ startup = NotStarted
  /\ \E key \in Keys, plaintext \in Plaintexts :
       box = [NoBox EXCEPT !.pc = "plain", !.key = key, !.plaintext = plaintext]
  /\ derivation = NoDerivation
  /\ nodeId = NoNodeId

\* seal(key, plaintext) with a fresh nonce.
Seal ==
  /\ box.pc = "plain"
  /\ \E nonce \in randomBytes24 :
       box' = [box EXCEPT !.pc = "sealed", !.sealed = seal(box.key, box.plaintext, nonce)]
  /\ UNCHANGED <<relayVars, derivation, nodeId>>

\* open(key, sealed) under any key.
Open ==
  /\ box.pc = "sealed"
  /\ \E key \in Keys :
       box' = [box EXCEPT !.pc = "opened", !.input = box.sealed, !.openKey = key,
                          !.opened = open(key, box.sealed)]
  /\ UNCHANGED <<relayVars, derivation, nodeId>>

\* open(key, input), input being a sealed message with one bit flipped.
OpenTampered ==
  /\ box.pc = "sealed"
  /\ \E key \in Keys, i \in 1..Len(box.sealed), b \in 0..7 :
       LET input == FlipBit(box.sealed, i, b) IN
       box' = [box EXCEPT !.pc = "openedTampered", !.input = input, !.openKey = key,
                          !.opened = open(key, input)]
  /\ UNCHANGED <<relayVars, derivation, nodeId>>

\* open(key, input), input being the first n < 24 + 16 bytes of a sealed
\* message.
OpenTruncated ==
  /\ box.pc = "sealed"
  /\ \E key \in Keys, n \in 0..(24 + 16 - 1) :
       LET input == Truncate(box.sealed, n) IN
       box' = [box EXCEPT !.pc = "openedTruncated", !.input = input, !.openKey = key,
                          !.opened = open(key, input)]
  /\ UNCHANGED <<relayVars, derivation, nodeId>>

CryptoNext == Seal \/ Open \/ OpenTampered \/ OpenTruncated

CryptoSpec == CryptoInit /\ [][CryptoNext]_vars

\* ---------------------------------------------- slip21Derive: one use of it
RelayIdle ==
  /\ clients = <<>>
  /\ readyState = [s \in Sockets |-> "CONNECTING"]
  /\ requests = [r \in Requests |-> [pc |-> "idle", exit |-> NoExit, out |-> <<>>]]
  /\ messages = [s \in Sockets |-> <<>>]
  /\ sent = [s \in Sockets |-> <<>>]
  /\ sendAfterCloseThrows = FALSE
  /\ startup = NotStarted

DeriveInit ==
  /\ RelayIdle
  /\ box = NoBox
  /\ nodeId = NoNodeId
  /\ \E seed \in Seeds, path \in Paths :
       derivation = [NoDerivation EXCEPT !.pc = "input", !.seed = seed, !.path = path]

\* slip21Derive(seed, path).
Derive ==
  /\ derivation.pc = "input"
  /\ derivation' = [derivation EXCEPT !.pc = "derived",
                                      !.key = slip21Derive(derivation.seed, derivation.path)]
  /\ UNCHANGED <<relayVars, box, nodeId>>

DeriveNext == Derive

DeriveSpec == DeriveInit /\ [][DeriveNext]_vars

\* -------------------------------------------- nanoidAsNodeId: one use of it
NodeIdInit ==
  /\ RelayIdle
  /\ box = NoBox
  /\ derivation = NoDerivation
  /\ nodeId = NoNodeId

\* nanoidAsNodeId, the random source being one of the streams.
NewNodeId ==
  /\ nodeId.pc = "off"
  /\ \E stream \in RandomStreams :
       nodeId' = [pc |-> "made", stream |-> stream, id |-> nanoidForNodeId(stream)]
  /\ UNCHANGED <<relayVars, box, derivation>>

NodeIdNext == NewNodeId

NodeIdSpec == NodeIdInit /\ [][NodeIdNext]_vars

\* ------------------------------------------------------------ properties
Range(seq) == {seq[i] : i \in DOMAIN seq}
Frames(out) == SelectSeq(out, LAMBDA e : e.kind = "frame")
Responses(out) == SelectSeq(out, LAMBDA e : e.kind = "response")
Consoles(out) == SelectSeq(out, LAMBDA e : e.kind = "console")
CausedBy(seq, cause) == SelectSeq(seq, LAMBDA e : e.cause = cause)
MessageIds == {<<s, n>> \in Sockets \X (1..MaxSyncs) : n <= Len(messages[s])}
Msg(m) == messages[m[1]][m[2]]
HttpSucceeded(r) == requests[r].pc = "done" /\ requests[r].exit._tag = "Success"
HttpBadRequest(r) == requests[r].pc = "done" /\ requests[r].exit.cause._tag = "Fail"
HttpUnclassified(r) == requests[r].pc = "done" /\ requests[r].exit.cause._tag \in {"Die", "Interrupt"}

\* The step in which the sync of request r ends with success payload R.
C1_Step(r) ==
  (requests[r].pc = "syncing" /\ requests'[r].pc = "done" /\ requests'[r].exit._tag = "Success") =>
    LET R == requests'[r].exit.value
        out == requests'[r].out
    IN /\ Responses(out) = <<Response(r, 200, "application/x-protobuf", R)>>
       /\ \A s \in Range(clients) :
            readyState[s] = "OPEN" =>
              /\ Len(SelectSeq(out, LAMBDA e : e = Frame(s, R, HttpCause(r), TRUE))) = 1
              /\ sent'[s] = Append(sent[s], Frame(s, R, HttpCause(r), TRUE))

\* C1: when the sync of an HTTP POST ends with success payload R, the reply
\* is 200 with content type application/x-protobuf and body R, and R goes
\* out as exactly one frame on every connection that is in the registry and
\* open when the broadcast runs.
C1_SuccessReplyAndBroadcast == [][\A r \in Requests : C1_Step(r)]_vars

\* A POST succeeded and its payload went out on both sockets.
C1_Witness ==
  \E r \in Requests :
    /\ HttpSucceeded(r)
    /\ \A s \in Sockets : CausedBy(sent[s], HttpCause(r)) # <<>>

\* C2: when the sync of an HTTP POST fails with BadRequestError{error: E},
\* the reply is 400 with body JSON.stringify(E), and no frame goes to any
\* socket because of that request.
C2_BadRequestReply ==
  \A r \in Requests :
    HttpBadRequest(r) =>
      /\ requests[r].out = <<Response(r, 400, "", JsonStringify(requests[r].exit.cause.error.error))>>
      /\ \A s \in Sockets : CausedBy(sent[s], HttpCause(r)) = <<>>

\* A POST failed with a BadRequestError while a registered socket was open.
C2_Witness ==
  \E r \in Requests :
    /\ HttpBadRequest(r)
    /\ requests[r].exit.cause.error.error._tag = "SyntaxError"
    /\ \E s \in Range(clients) : readyState[s] = "OPEN" /\ sent[s] = <<>>

\* C3: when the sync of an HTTP POST ends in a failure that is not a
\* BadRequestError (a defect, an interruption), the reply is 500 with the
\* fixed body "Internal Server Error", whatever the cause, and nothing is
\* broadcast.
C3_UnclassifiedReply ==
  \A r \in Requests :
    HttpUnclassified(r) =>
      /\ Responses(requests[r].out) = <<Response(r, 500, "", "Internal Server Error")>>
      /\ Frames(requests[r].out) = <<>>
      /\ \A s \in Sockets : CausedBy(sent[s], HttpCause(r)) = <<>>

\* Two POSTs ended in different unclassified failures, a socket being open.
C3_Witness ==
  /\ \E r \in Requests : HttpUnclassified(r) /\ requests[r].exit.cause._tag = "Die"
  /\ \E r \in Requests : HttpUnclassified(r) /\ requests[r].exit.cause._tag = "Interrupt"
  /\ \E s \in Range(clients) : readyState[s] = "OPEN"

\* C4: every HTTP request whose sync has ended has exactly one response
\* written, and a request whose sync has not ended has none, under every
\* interleaving with other requests and WebSocket messages.
C4_ExactlyOneResponse ==
  \A r \in Requests :
    Len(Responses(requests[r].out)) = IF requests[r].pc = "done" THEN 1 ELSE 0

\* Two requests ended with different outcomes, and the payload of the
\* successful one was broadcast.
C4_Witness ==
  /\ requests[1].pc = "done" /\ requests[2].pc = "done"
  /\ requests[1].exit._tag = "Success" /\ requests[2].exit._tag = "Failure"
  /\ \E s \in Sockets : sent[s] # <<>>

\* C5: when the sync of a WebSocket message ends with success payload R, the
\* handler sends R on the socket the message arrived on (it goes out when
\* that socket is open) and sends nothing to any other socket.
C5_ReplyToSameSocketOnly ==
  \A m \in MessageIds :
    (Msg(m).pc # "syncing" /\ Msg(m).exit._tag = "Success") =>
      /\ Msg(m).out # <<>>
      /\ Head(Msg(m).out).kind = "frame"
      /\ Head(Msg(m).out).to = m[1]
      /\ Head(Msg(m).out).data = Msg(m).exit.value
      /\ Head(Msg(m).out).open => Head(Msg(m).out) \in Range(sent[m[1]])
      /\ \A i \in DOMAIN Msg(m).out : Msg(m).out[i].kind = "frame" => Msg(m).out[i].to = m[1]
      /\ \A t \in Sockets \ {m[1]} : CausedBy(sent[t], WsCause(m[1], m[2])) = <<>>

\* A message was answered with its payload while another registered socket
\* was open.
C5_Witness ==
  \E m \in MessageIds :
    /\ Msg(m).pc = "replied"
    /\ CausedBy(sent[m[1]], WsCause(m[1], m[2])) # <<>>
    /\ \E t \in Range(clients) \ {m[1]} : readyState[t] = "OPEN"

C7_RepliesInReceiptOrder ==
  \A s \in Sockets :
    \A i, j \in DOMAIN sent[s] :
      (/\ sent[s][i].cause[1] = "ws"
       /\ sent[s][j].cause[1] = "ws"
       /\ sent[s][i].cause[3] < sent[s][j].cause[3]) => i < j

\* C8: a broadcast sends only to registered sockets it observed open and
\* skips the others; closed sockets in the registry raise no error and
\* leave the response of the triggering request as it is.
C8_BroadcastSkipsClosed ==
  \A r \in Requests :
    HttpSucceeded(r) =>
      LET out == requests[r].out IN
      /\ \A i \in DOMAIN out :
           out[i].kind = "frame" => out[i].open /\ out[i].to \in Range(clients)
      /\ Consoles(out) = <<>>
      /\ Head(out) = Response(r, 200, "application/x-protobuf", requests[r].exit.value)

\* A POST succeeded and was broadcast to socket 2 while socket 1, registered
\* before it, was skipped.
C8_Witness ==
  \E r \in Requests :
    /\ HttpSucceeded(r)
    /\ readyState[1] = "CLOSED"
    /\ CausedBy(sent[1], HttpCause(r)) = <<>>
    /\ CausedBy(sent[2], HttpCause(r)) # <<>>

\* C9: no handler calls send on a socket that is not open at that moment,
\* on the broadcast path, the WebSocket reply path and the WebSocket error
\* notification path.
C9_NoSendOnClosedSocket ==
  /\ \A r \in Requests :
       \A i \in DOMAIN requests[r].out :
         requests[r].out[i].kind = "frame" => requests[r].out[i].open
  /\ \A m \in MessageIds :
       \A i \in DOMAIN Msg(m).out :
         Msg(m).out[i].kind = "frame" => Msg(m).out[i].open
\* C10: open(K, seal(K, M)) returns exactly M for every key K and message M,
\* the empty message included; seal returns the 24-byte nonce followed by
\* the ciphertext with its 16-byte tag, and open splits its input at byte 24.
C10_RoundTrip ==
  /\ box.pc \in {"sealed", "opened"} =>
       /\ Len(box.sealed) = 24 + 16 + Len(box.plaintext)
       /\ SubSeq(box.sealed, 1, 24) \in randomBytes24
  /\ (box.pc = "opened" /\ box.openKey = box.key) => box.opened = Returned(box.plaintext)

\* A non-empty message was sealed and opened under the same key.
C10_Witness ==
  /\ box.pc = "opened"
  /\ box.openKey = box.key
  /\ Len(box.plaintext) = MaxLen
  /\ box.opened.ok
\* C11: open(K, input) throws and returns no plaintext when input was sealed
\* under another key, when it differs from a sealed message in one bit (of
\* the nonce, the tag or the ciphertext), and when it is shorter than 24 + 16
\* bytes.
C11_OpenRejects ==
  /\ (box.pc = "opened" /\ box.openKey # box.key) => box.opened = Thrown
  /\ box.pc = "openedTampered" => box.opened = Thrown
  /\ box.pc = "openedTruncated" => box.opened = Thrown

\* A message sealed under one key was opened under the same key after a bit
\* of its ciphertext was flipped, and open threw.
C11_Witness ==
  /\ box.pc = "openedTampered"
  /\ box.openKey = box.key
  /\ Len(box.plaintext) = MaxLen
  /\ SubSeq(box.input, 1, 24 + 16) = SubSeq(box.sealed, 1, 24 + 16)
  /\ ~box.opened.ok
\* The reference fold: state0 = HMAC-SHA512("Symmetric key seed", seed), one
\* HMAC-SHA512(state[0:32], 0x00 || utf8(segment)) per segment in order.
RECURSIVE ReferenceState(_, _)
ReferenceState(seed, path) ==
  IF path = <<>> THEN hmacSha512(SymmetricKeySeed, seed)
  ELSE LET before == ReferenceState(seed, SubSeq(path, 1, Len(path) - 1))
           segment == path[Len(path)]
       IN hmacSha512(SubSeq(before, 1, 32), <<0>> \o TextEncode(segment))
Reversed(path) == [i \in 1..Len(path) |-> path[Len(path) + 1 - i]]

\* C12: derive(seed, path) equals the reference fold over the path, bytes
\* 32..63 of its last state; for the empty path that is the upper half of
\* state0; and a path of distinct segments in another order derives another
\* key.
C12_DeriveIsReferenceFold ==
  derivation.pc = "derived" =>
    /\ derivation.key = SubSeq(ReferenceState(derivation.seed, derivation.path), 33, 64)
    /\ Len(derivation.key) = 32
    /\ derivation.path = <<>> =>
         derivation.key = SubSeq(hmacSha512(SymmetricKeySeed, derivation.seed), 33, 64)
    /\ Reversed(derivation.path) # derivation.path =>
         derivation.key # slip21Derive(derivation.seed, Reversed(derivation.path))

\* A key was derived along a path of two segments, one of them not ASCII.
C12_Witness ==
  /\ derivation.pc = "derived"
  /\ Len(derivation.path) = MaxPath
  /\ derivation.path[1] = <<233>>
  /\ derivation.path[MaxPath] = <<97, 98>>
  /\ Len(derivation.key) = 32

\* C13: every id nanoidAsNodeId produces has exactly 16 characters, each of
\* them a character of 0123456789abcdef, and so matches ^[\w-]{16}$.
C13_NodeIdFormat ==
  nodeId.pc = "made" =>
    /\ Len(nodeId.id) = 16
    /\ \A i \in DOMAIN nodeId.id : \E k \in DOMAIN HexAlphabet : nodeId.id[i] = HexAlphabet[k]
    /\ NodeIdPattern(nodeId.id)

\* An id was made from a random stream whose bytes differ, and it holds a
\* letter and a digit.
C13_Witness ==
  /\ nodeId.pc = "made"
  /\ nodeId.stream[1] > 0
  /\ \E i, j \in DOMAIN nodeId.id : nodeId.id[i] = "f" /\ nodeId.id[j] = "0"
C15_HttpFailureStep(r) ==
  (requests[r].pc = "syncing" /\ requests'[r].pc = "done" /\ requests'[r].exit._tag = "Failure") =>
    /\ clients' = clients
    /\ \A o \in Requests \ {r} : requests'[o] = requests[o]
    /\ messages' = messages
    /\ sent' = sent

\* The step in which the sync of message n of socket s ends in a failure.
C15_MessageFailureStep(s, n) ==
  (/\ n \in DOMAIN messages[s]
   /\ messages[s][n].pc = "syncing"
   /\ messages'[s][n].pc # "syncing"
   /\ messages'[s][n].exit._tag = "Failure") =>
    /\ clients' = clients
    /\ requests' = requests
    /\ \A t \in Sockets : \A k \in DOMAIN messages[t] :
         <<t, k>> # <<s, n>> => messages'[t][k] = messages[t][k]
    /\ \A t \in Sockets \ {s} : sent'[t] = sent[t]
    /\ CausedBy(sent'[s], WsCause(s, n)) \in {<<>>, <<Frame(s, ErrorNotification, WsCause(s, n), TRUE)>>}
    /\ SelectSeq(sent'[s], LAMBDA e : e.cause # WsCause(s, n)) = sent[s]

\* C15: a failed sync on one HTTP request or WebSocket message leaves the
\* connection registry as it is and leaves every other request and message,
\* in flight or answered, and what was sent for them, as they are.
C15_FailureIsIsolated ==
  [][/\ \A r \in Requests : C15_HttpFailureStep(r)
     /\ \A s \in Sockets : \A n \in 1..MaxSyncs : C15_MessageFailureStep(s, n)]_vars

\* The second request failed while the first, posted before it, is still in
\* flight and a socket is registered.
C15_Witness ==
  /\ requests[1].pc = "syncing"
  /\ requests[2].pc = "done"
  /\ requests[2].exit._tag = "Failure"
  /\ clients # <<>>
\* The registry holds every socket accepted so far, closed ones included,
\* once each.
C16_Inv ==
  /\ Range(clients) = {s \in Sockets : readyState[s] # "CONNECTING"}
  /\ \A i, j \in DOMAIN clients : clients[i] = clients[j] => i = j

\* A step leaves the registry as it is or is the accept handler appending
\* the socket it accepts.
C16_Step ==
  \/ clients' = clients
  \/ \E s \in Sockets :
       /\ readyState[s] = "CONNECTING"
       /\ readyState'[s] = "OPEN"
       /\ clients' = Append(clients, s)

\* C16: the registry only grows: it holds every socket ever accepted exactly
\* once, closed sockets included, only the accept handler changes it, and
\* nothing removes an entry.
C16_RegistryOnlyGrows == []C16_Inv /\ [][C16_Step]_vars

\* Both sockets were accepted, the first one closed, a message and an HTTP
\* request were handled, and both sockets are in the registry.
C16_Witness ==
  /\ clients = <<1, 2>>
  /\ readyState[1] = "CLOSED"
  /\ \E r \in Requests : requests[r].pc = "done"
  /\ \E m \in MessageIds : Msg(m).pc # "syncing"

\* C17: initDatabase is invoked once per server startup, and it has
\* finished before the POST route and the WebSocket connection handler
\* exist, so no sync is dispatched before initDatabase has finished.
C17_InitDatabaseFirst ==
  /\ startup.calls <= 1
  /\ startup.phase # "start" => startup.calls = 1
  /\ (startup.route \/ startup.wsHandler) => startup.initDatabase = "done"
  /\ Dispatched > 0 => startup.initDatabase = "done" /\ startup.calls = 1

C17_Witness ==
  /\ startup.phase = "listening"
  /\ \E r \in Requests : requests[r].pc # "idle"
  /\ \E s \in Sockets : messages[s] # <<>>

\* The one frame that answers message n of socket s once its sync has ended.
C18_Answer(s, n) ==
  Frame(s, IF messages[s][n].exit._tag = "Success"
           THEN messages[s][n].exit.value
           ELSE ErrorNotification,
        WsCause(s, n), TRUE)

\* C18: for every WebSocket message whose sync has ended and whose socket
\* is still open, exactly one frame went out in answer, on that socket: the
\* success payload, or the fixed {"error": ...} notification; never both,
\* and never a frame that carries the structured error or the cause.
C18_OneAnswerFrame ==
  \A m \in MessageIds :
    (Msg(m).pc # "syncing" /\ readyState[m[1]] = "OPEN") =>
      /\ CausedBy(sent[m[1]], WsCause(m[1], m[2])) = <<C18_Answer(m[1], m[2])>>
      /\ Frames(Msg(m).out) = <<C18_Answer(m[1], m[2])>>
      /\ \A t \in Sockets \ {m[1]} : CausedBy(sent[t], WsCause(m[1], m[2])) = <<>>
      /\ C18_Answer(m[1], m[2]).data \notin {JsonStringify(e) : e \in Errors}
      /\ C18_Answer(m[1], m[2]).data \in Payloads \cup {ErrorNotification}
      /\ Msg(m).pc = IF Msg(m).exit._tag = "Success" THEN "replied" ELSE "notified"

\* On open sockets, one message was answered with its payload and another,
\* whose sync failed with a structured error, with the notification.
C18_Witness ==
  \E m, k \in MessageIds :
    /\ readyState[m[1]] = "OPEN" /\ readyState[k[1]] = "OPEN"
    /\ Msg(m).pc = "replied"
    /\ Msg(k).pc = "notified"
    /\ Msg(k).exit._tag = "Failure" /\ Msg(k).exit.cause._tag = "Fail"

\* Where the payload of HTTP request r sits among the frames sent on s.
C19_Positions(s, r) == {i \in DOMAIN sent[s] : sent[s][i].cause = HttpCause(r)}

\* Each broadcast payload is on each socket at most once, and two sockets
\* that both got the payloads of two requests got them in the same order.
C19_Inv ==
  \A r1, r2 \in Requests : \A s, t \in Sockets :
    /\ Cardinality(C19_Positions(s, r1)) <= 1
    /\ C19_Positions(s, r1) # {} => HttpSucceeded(r1)
    /\ \A i1 \in C19_Positions(s, r1), i2 \in C19_Positions(s, r2),
          j1 \in C19_Positions(t, r1), j2 \in C19_Positions(t, r2) :
          (i1 < i2) <=> (j1 < j2)

\* The step in which request r succeeds: the whole broadcast is in it.  No
\* registration and no close is in the step; every registered open socket
\* gets the one frame after everything it was sent before, so after the
\* payload of every request that succeeded earlier; the other sockets get
\* nothing.
C19_Step(r) ==
  (requests[r].pc = "syncing" /\ requests'[r].pc = "done" /\ requests'[r].exit._tag = "Success") =>
    /\ clients' = clients
    /\ readyState' = readyState
    /\ \A q \in Requests \ {r} : requests'[q] = requests[q]
    /\ \A s \in Sockets :
         IF s \in Range(clients) /\ readyState[s] = "OPEN"
         THEN /\ sent'[s] = Append(sent[s], Frame(s, requests'[r].exit.value, HttpCause(r), TRUE))
              /\ \A q \in Requests \ {r} : \A i \in DOMAIN sent[s] :
                   sent[s][i].cause = HttpCause(q) => HttpSucceeded(q) /\ i < Len(sent'[s])
         ELSE sent'[s] = sent[s]

\* C19: a broadcast runs to completion with no other broadcast and no
\* registration inside it: of two HTTP requests that both succeed, every
\* connection registered and open throughout gets both payloads, each
\* once, in the order in which the two syncs ended, the same on every
\* such connection.
C19_BroadcastsDoNotInterleave ==
  []C19_Inv /\ [][\A r \in Requests : C19_Step(r)]_vars

\* Both requests succeeded, the second to arrive first, and both sockets
\* got the two payloads in that order.
C19_Witness ==
  /\ HttpSucceeded(1) /\ HttpSucceeded(2)
  /\ \A s \in Sockets :
       /\ readyState[s] = "OPEN"
       /\ Len(sent[s]) = 2
       /\ sent[s][1].cause = HttpCause(2)
       /\ sent[s][2].cause = HttpCause(1)

====
